---- MODULE Spec2Model ----
(***************************************************************************)
(* A model of the argon fan controller library: the bounded value types    *)
(* (FanSpeed, DegreesC), the configuration checker, the temperature to     *)
(* fan-speed map and the periodic scheduler.                               *)
(*                                                                         *)
(* A FanSpeed and a DegreesC are modelled by the u8 they wrap.  An Instant *)
(* is a number of whole seconds on the monotonic clock and a Duration a    *)
(* number of whole seconds.                                                *)
(***************************************************************************)
EXTENDS Integers, Sequences, FiniteSets

VARIABLES
    built,      \* "no" | "yes" | "panic": outcome of FanSpeedMap::new
    fsm,        \* the FanSpeedMap: its four boundary values and its table
    temp,       \* argument of the last FanSpeedMap::get, -1 before any
    speed,      \* result of the last FanSpeedMap::get, -1 before any
    prev,       \* Scheduler.prev
    interval,   \* Scheduler.interval
    now,        \* argument of the last Scheduler::new / Scheduler::update
    due,        \* result of the last Scheduler::update
    lastDue,    \* timestamp of the latest due result before the last call, -1 if none
    regressed,  \* a backwards-time call was seen since that due result
    advancing,  \* the control loop's clock has stopped regressing
    config,     \* the Config last deserialized or defaulted
    checkResult,\* result of the last Config::check
    loadResult, \* result of the last Config::load
    rawArg,     \* argument of the last FanSpeed::new, -1 if it was not the last
    fs,         \* result of the last FanSpeed construction
    text,       \* the text last formatted or typed, a sequence of characters
    origin,     \* how text was made, and from which FanSpeed
    parsed      \* result of the last FanSpeed::from_str

vars == <<built, fsm, temp, speed, prev, interval, now, due,
          lastDue, regressed, advancing,
          config, checkResult, loadResult, rawArg, fs, text, origin, parsed>>

mapVars == <<built, fsm, temp, speed>>
loopVars == <<lastDue, regressed, advancing>>
schedVars == <<prev, interval, now, due, loopVars>>
configVars == <<config, checkResult, loadResult>>
fanSpeedVars == <<rawArg, fs, text, origin, parsed>>

----------------------------------------------------------------------------
(* Program constants *)

U8Max == 255
FanSpeedMAX == 100
FanSpeedMIN == 0
FanSpeedDefaultValue == 25

U8 == 0..U8Max

----------------------------------------------------------------------------
(* Fan-speed mapping engine (fan_speed_map.rs) *)

(* num::clamp *)
clamp(input, min, max) ==
    IF input < min THEN min
    ELSE IF input > max THEN max
    ELSE input

(* An f64 is carried as the exact rational num/den, den > 0.  For the      *)
(* operands map_range is given here (integers of at most 255) the f64      *)
(* subtraction and product are exact, and a quotient that is not an        *)
(* integer lies at least 1/255 from one, far more than the rounding error  *)
(* of the division and of the final sum, so the integer part of the f64    *)
(* result is the integer part of this rational.                            *)
map_range_mut_divisor(from_range, to_range, s) ==
    LET d == from_range[2] - from_range[1] + 1
    IN  [num |-> to_range[1] * d + (s - from_range[1]) * (to_range[2] - to_range[1]),
         den |-> d]

map_range_mut_descending(from_range, to_range, s) ==
    LET d == from_range[2] - from_range[1]
    IN  [num |-> to_range[2] * d - (s - from_range[1]) * (to_range[2] - to_range[1]),
         den |-> d]

map_range(from_range, to_range, s) ==
    LET d == from_range[2] - from_range[1]
    IN  [num |-> to_range[1] * d + (s - from_range[1]) * (to_range[2] - to_range[1]),
         den |-> d]

(* `x as u8` for an f64 x: truncate toward zero, saturate at 0 and 255 *)
F64AsU8(x) ==
    LET q == IF x.num >= 0 THEN x.num \div x.den ELSE -((-x.num) \div x.den)
    IN  IF q < 0 THEN 0 ELSE IF q > U8Max THEN U8Max ELSE q

(* The table FanSpeedMap::new fills: one entry per t in t_min..=t_max *)
BuildMap(t_min, t_max, s_min, s_max) ==
    [t \in t_min..t_max |->
        clamp(F64AsU8(map_range(<<t_min, t_max>>, <<s_min, s_max>>, t)), s_min, s_max)]

NoFanSpeedMap ==
    [temperature_min |-> 0, temperature_max |-> 0,
     fan_speed_min |-> 0, fan_speed_max |-> 0, map |-> [t \in {} |-> 0]]

(* Inputs of FanSpeedMap::new: DegreesC values and FanSpeed values.  A      *)
(* FanSpeed above 100 (101 here) is one the derived Deserialize yields.    *)
TempBounds == {0, 1, 33, 65, 255}
SpeedBounds == {0, 1, 10, 99, 100, 101}

(* FanSpeed::new_unchecked: its debug_assert!(fs <= Self::MAX.0) panics in *)
(* a build with debug assertions and is compiled out of a release build.   *)
new_unchecked_panics(s, debug_assertions) ==
    debug_assertions /\ s > FanSpeedMAX

(* FanSpeedMap::new.  The two assert! on the ranges panic in every build.  *)
(* The table loop calls new_unchecked on every entry, so with an entry     *)
(* above 100 the outcome depends on the build: a panic with debug          *)
(* assertions, the map without them.                                       *)
FanSpeedMapNew(temperature_min, temperature_max, fan_speed_min, fan_speed_max) ==
    /\ built = "no"
    /\ IF temperature_max > temperature_min /\ fan_speed_max > fan_speed_min
       THEN LET map == BuildMap(temperature_min, temperature_max,
                                fan_speed_min, fan_speed_max)
            IN  \E debug_assertions \in BOOLEAN :
                  IF \E t \in DOMAIN map : new_unchecked_panics(map[t], debug_assertions)
                  THEN /\ built' = "panic"
                       /\ fsm' = fsm
                  ELSE /\ built' = "yes"
                       /\ fsm' = [temperature_min |-> temperature_min,
                                  temperature_max |-> temperature_max,
                                  fan_speed_min |-> fan_speed_min,
                                  fan_speed_max |-> fan_speed_max,
                                  map |-> map]
       ELSE /\ built' = "panic"
            /\ fsm' = fsm
    /\ UNCHANGED <<temp, speed, schedVars, configVars, fanSpeedVars>>

get_mut_type_max(self, t) ==
    IF t < self.temperature_min THEN self.fan_speed_min
    ELSE IF t > self.temperature_max THEN FanSpeedMAX
    ELSE self.map[t]

get_mut_swapped(self, t) ==
    IF t < self.temperature_min THEN self.fan_speed_max
    ELSE IF t > self.temperature_max THEN self.fan_speed_min
    ELSE self.map[t]

(* FanSpeedMap::get as a function of (self, temp) *)
get(self, t) ==
    IF t < self.temperature_min THEN self.fan_speed_min
    ELSE IF t > self.temperature_max THEN self.fan_speed_max
    ELSE self.map[t]

FanSpeedMapGet(t) ==
    /\ built = "yes"
    /\ temp' = t
    /\ speed' = get(fsm, t)
    /\ UNCHANGED <<built, fsm, schedVars, configVars, fanSpeedVars>>

MapInit ==
    /\ built = "no"
    /\ fsm = NoFanSpeedMap
    /\ temp = -1
    /\ speed = -1

----------------------------------------------------------------------------
(* Periodic scheduler (scheduler.rs) *)

MaxTime == 160

Instants == 0..MaxTime
StartTimes == {0, 5}
Intervals == {1, 2, 30, 100}

(* Instant::checked_duration_since: None (-1 here) when earlier is later *)
checked_duration_since(later, earlier) ==
    IF later < earlier THEN -1 ELSE later - earlier

(* Scheduler::new *)
SchedulerNew(n, i) ==
    /\ prev = n
    /\ interval = i
    /\ now = n
    /\ due = FALSE

SchedulerUpdate_mut_strict(n) ==
    LET time_since == checked_duration_since(n, prev)
    IN  /\ now' = n
        /\ IF time_since = -1
           THEN /\ prev' = n
                /\ due' = FALSE
           ELSE IF time_since > interval
           THEN /\ prev' = n
                /\ due' = TRUE
           ELSE /\ prev' = prev
                /\ due' = FALSE
        /\ UNCHANGED <<interval, mapVars, configVars, fanSpeedVars>>

SchedulerUpdate_mut_no_reset(n) ==
    LET time_since == checked_duration_since(n, prev)
    IN  /\ now' = n
        /\ IF time_since = -1
           THEN /\ prev' = prev
                /\ due' = FALSE
           ELSE IF time_since >= interval
           THEN /\ prev' = n
                /\ due' = TRUE
           ELSE /\ prev' = prev
                /\ due' = FALSE
        /\ UNCHANGED <<interval, mapVars, configVars, fanSpeedVars>>

SchedulerUpdate_mut_fixed_origin(n) ==
    LET time_since == checked_duration_since(n, prev)
    IN  /\ now' = n
        /\ IF time_since = -1
           THEN /\ prev' = n
                /\ due' = FALSE
           ELSE IF time_since >= interval
           THEN /\ prev' = prev + interval
                /\ due' = TRUE
           ELSE /\ prev' = prev
                /\ due' = FALSE
        /\ UNCHANGED <<interval, mapVars, configVars, fanSpeedVars>>

SchedulerUpdate_mut_due_no_reset(n) ==
    LET time_since == checked_duration_since(n, prev)
    IN  /\ now' = n
        /\ IF time_since = -1
           THEN /\ prev' = n
                /\ due' = FALSE
           ELSE IF time_since >= interval
           THEN /\ prev' = prev
                /\ due' = TRUE
           ELSE /\ prev' = prev
                /\ due' = FALSE
        /\ UNCHANGED <<interval, mapVars, configVars, fanSpeedVars>>

SchedulerUpdate_mut_wait_resets(n) ==
    LET time_since == checked_duration_since(n, prev)
    IN  /\ now' = n
        /\ IF time_since = -1
           THEN /\ prev' = n
                /\ due' = FALSE
           ELSE IF time_since >= interval
           THEN /\ prev' = n
                /\ due' = TRUE
           ELSE /\ prev' = n
                /\ due' = FALSE
        /\ UNCHANGED <<interval, mapVars, configVars, fanSpeedVars>>

(* Scheduler::update.  It leaves the observations of the control loop      *)
(* (loopVars) to the specification that calls it.                          *)
SchedulerUpdate(n) ==
    LET time_since == checked_duration_since(n, prev)
    IN  /\ now' = n
        /\ IF time_since = -1
           THEN /\ prev' = n
                /\ due' = FALSE
           ELSE IF time_since >= interval
           THEN /\ prev' = n
                /\ due' = TRUE
           ELSE /\ prev' = prev
                /\ due' = FALSE
        /\ UNCHANGED <<interval, mapVars, configVars, fanSpeedVars>>

(* Nothing observed yet: no due result, no regression *)
NoHistory ==
    /\ lastDue = -1
    /\ regressed = FALSE
    /\ advancing = FALSE

SchedIdle ==
    /\ prev = 0
    /\ interval = 0
    /\ now = 0
    /\ due = FALSE
    /\ NoHistory

(* The control loop polling the scheduler, with a shorter horizon *)
MaxPollTime == 30

PollInstants == 0..MaxPollTime
PollIntervals == {1, 2, 7, 10}

(* What the loop has seen once update(n) has returned: the timestamp of    *)
(* the due result before this call, and whether a call since then found    *)
(* the clock behind prev.                                                  *)
Observe(n) ==
    /\ lastDue' = IF due THEN now ELSE lastDue
    /\ regressed' = ((IF due THEN FALSE ELSE regressed) \/ n < prev)

(* A poll while the clock may still regress: any timestamp *)
Poll(n) ==
    /\ ~advancing
    /\ SchedulerUpdate(n)
    /\ Observe(n)
    /\ advancing' = advancing

(* From here on the loop's timestamps only advance *)
ClockSettles ==
    /\ ~advancing
    /\ advancing' = TRUE
    /\ UNCHANGED <<prev, interval, now, due, lastDue, regressed,
                   mapVars, configVars, fanSpeedVars>>

(* A poll at a timestamp later than the last one *)
PollLater(n) ==
    /\ advancing
    /\ n > now
    /\ SchedulerUpdate(n)
    /\ Observe(n)
    /\ advancing' = advancing

----------------------------------------------------------------------------
(* Configuration model (config.rs) *)

DefaultIntervalSeconds == 30
DefaultTemperatureMin == 33
DefaultTemperatureMax == 65

NoConfig ==
    [update_interval_seconds |-> 0, temperature_min |-> 0, temperature_max |-> 0,
     fan_speed_min |-> 0, fan_speed_max |-> 0]

(* Config::default *)
ConfigDefaultValue ==
    [update_interval_seconds |-> DefaultIntervalSeconds,
     temperature_min |-> DefaultTemperatureMin,
     temperature_max |-> DefaultTemperatureMax,
     fan_speed_min |-> 0,
     fan_speed_max |-> FanSpeedMAX]

check_mut_speed_first(c) ==
    IF c.fan_speed_min >= c.fan_speed_max THEN "InvalidFanSpeedRange"
    ELSE IF c.temperature_min >= c.temperature_max THEN "InvalidTemperatureRange"
    ELSE IF c.fan_speed_min > FanSpeedMAX THEN "InvalidFanSpeedMin"
    ELSE IF c.fan_speed_max > FanSpeedMAX THEN "InvalidFanSpeedMax"
    ELSE "Ok"

(* Config::check *)
check(c) ==
    IF c.temperature_min >= c.temperature_max THEN "InvalidTemperatureRange"
    ELSE IF c.fan_speed_min >= c.fan_speed_max THEN "InvalidFanSpeedRange"
    ELSE IF c.fan_speed_min > FanSpeedMAX THEN "InvalidFanSpeedMin"
    ELSE IF c.fan_speed_max > FanSpeedMAX THEN "InvalidFanSpeedMax"
    ELSE "Ok"

(* The numbers a configuration document may give for its fields.  256 does *)
(* not fit the u8 of DegreesC and FanSpeed, 0 is no NonZeroU32.            *)
DocTemperatures == {0, 1, 255, 256}
DocFanSpeeds == {0, 10, 100, 101, 255, 256}
DocIntervals == {0, 30}

Documents ==
    [update_interval_seconds : DocIntervals,
     temperature_min : DocTemperatures, temperature_max : DocTemperatures,
     fan_speed_min : DocFanSpeeds, fan_speed_max : DocFanSpeeds]

(* The derived Deserialize of Config, DegreesC, FanSpeed and               *)
(* UpdateIntervalSeconds accepts a document iff every field fits its       *)
(* integer type; it applies no other check.                                *)
Deserializable(doc) ==
    /\ doc.update_interval_seconds >= 1
    /\ doc.temperature_min \in U8
    /\ doc.temperature_max \in U8
    /\ doc.fan_speed_min \in U8
    /\ doc.fan_speed_max \in U8

NoLoad == [tag |-> "none", err |-> "none", config |-> NoConfig]

(* toml::from_str::<Config>, the derived Deserialize used on its own *)
ConfigFromToml(doc) ==
    /\ config' = IF Deserializable(doc) THEN doc ELSE NoConfig
    /\ checkResult' = "none"
    /\ loadResult' = NoLoad
    /\ UNCHANGED <<mapVars, schedVars, fanSpeedVars>>

(* Config::default *)
ConfigDefault ==
    /\ config' = ConfigDefaultValue
    /\ checkResult' = "none"
    /\ loadResult' = NoLoad
    /\ UNCHANGED <<mapVars, schedVars, fanSpeedVars>>

(* Config::check on the Config in hand *)
ConfigCheck ==
    /\ config # NoConfig
    /\ checkResult' = check(config)
    /\ UNCHANGED <<config, loadResult, mapVars, schedVars, fanSpeedVars>>

(* Config::load: read the file, deserialize, check *)
ConfigLoad(fileExists, doc) ==
    /\ IF ~fileExists
       THEN /\ config' = NoConfig
            /\ checkResult' = "none"
            /\ loadResult' = [tag |-> "Err", err |-> "Io", config |-> NoConfig]
       ELSE IF ~Deserializable(doc)
       THEN /\ config' = NoConfig
            /\ checkResult' = "none"
            /\ loadResult' = [tag |-> "Err", err |-> "Invalid", config |-> NoConfig]
       ELSE /\ config' = doc
            /\ checkResult' = check(doc)
            /\ loadResult' =
                 IF check(doc) = "Ok"
                 THEN [tag |-> "Ok", err |-> "none", config |-> doc]
                 ELSE [tag |-> "Err", err |-> check(doc), config |-> NoConfig]
    /\ UNCHANGED <<mapVars, schedVars, fanSpeedVars>>

ConfigIdle ==
    /\ config = NoConfig
    /\ checkResult = "none"
    /\ loadResult = NoLoad

----------------------------------------------------------------------------
(* FanSpeed (lib.rs).  Text is a sequence of one-character strings. *)

None == [tag |-> "None", val |-> 0]
Some(v) == [tag |-> "Some", val |-> v]

new_mut_exclusive(raw) ==
    IF raw >= FanSpeedMAX THEN None ELSE Some(raw)

(* FanSpeed::new *)
new(raw) ==
    IF raw > FanSpeedMAX THEN None ELSE Some(raw)

DigitChars == <<"0", "1", "2", "3", "4", "5", "6", "7", "8", "9">>
IsDigit(c) == \E d \in 1..10 : DigitChars[d] = c
DigitValue(c) == (CHOOSE d \in 1..10 : DigitChars[d] = c) - 1

(* The characters with the Unicode White_Space property, which is what     *)
(* char::is_whitespace tests: U+0009..U+000D, U+0020, U+0085, U+00A0,      *)
(* U+1680, U+2000..U+200A, U+2028, U+2029, U+202F, U+205F, U+3000.  The    *)
(* first row is written as the characters themselves (U+000B, U+0085 and   *)
(* U+00A0 stand between the quotes unescaped); a code point above U+00FF,  *)
(* which a string of this module cannot hold, is named by its code point.  *)
WhiteSpace ==
    { "\t", "\n", "", "\f", "\r", " ", "", " ",
      "U+1680", "U+2000", "U+2001", "U+2002", "U+2003", "U+2004", "U+2005",
      "U+2006", "U+2007", "U+2008", "U+2009", "U+200A", "U+2028", "U+2029",
      "U+202F", "U+205F", "U+3000" }

(* char::is_whitespace *)
IsWhitespace(c) == c \in WhiteSpace

(* `{}` of a u8: decimal digits, no sign, no leading zero *)
RECURSIVE FormatU8(_)
FormatU8(n) ==
    IF n < 10 THEN <<DigitChars[n + 1]>>
    ELSE FormatU8(n \div 10) \o <<DigitChars[(n % 10) + 1]>>

(* impl Display for FanSpeed: write!(f, "{}%", self.0) *)
Display(v) == FormatU8(v) \o <<"%">>

(* str::trim *)
RECURSIVE TrimStart(_)
TrimStart(s) ==
    IF s # <<>> /\ IsWhitespace(Head(s)) THEN TrimStart(Tail(s)) ELSE s

RECURSIVE TrimEnd(_)
TrimEnd(s) ==
    IF s # <<>> /\ IsWhitespace(s[Len(s)])
    THEN TrimEnd(SubSeq(s, 1, Len(s) - 1))
    ELSE s

trim(s) == TrimEnd(TrimStart(s))

(* str::parse::<u8>: an optional '+', then digits accumulated left to      *)
(* right; the first character that is no digit gives InvalidDigit, the     *)
(* first step past 255 gives PosOverflow.                                  *)
RECURSIVE ParseDigits(_, _)
ParseDigits(s, acc) ==
    IF s = <<>> THEN [tag |-> "Ok", val |-> acc]
    ELSE IF ~IsDigit(Head(s)) THEN [tag |-> "InvalidDigit", val |-> 0]
    ELSE LET next == acc * 10 + DigitValue(Head(s))
         IN  IF next > U8Max THEN [tag |-> "PosOverflow", val |-> 0]
             ELSE ParseDigits(Tail(s), next)

ParseU8(s) ==
    IF s = <<>> THEN [tag |-> "Empty", val |-> 0]
    ELSE IF s = <<"+">> \/ s = <<"-">> THEN [tag |-> "InvalidDigit", val |-> 0]
    ELSE IF Head(s) = "+" THEN ParseDigits(Tail(s), 0)
    ELSE ParseDigits(s, 0)

from_str_mut_exclusive(s) ==
    LET num == ParseU8(trim(s))
    IN  IF num.tag # "Ok" THEN [tag |-> "ParseIntError", kind |-> num.tag, val |-> 0]
        ELSE IF num.val >= FanSpeedMAX THEN [tag |-> "Invalid", kind |-> "none", val |-> num.val]
        ELSE [tag |-> "Ok", kind |-> "none", val |-> num.val]

(* impl FromStr for FanSpeed *)
from_str(s) ==
    LET num == ParseU8(trim(s))
    IN  IF num.tag # "Ok" THEN [tag |-> "ParseIntError", kind |-> num.tag, val |-> 0]
        ELSE IF num.val > FanSpeedMAX THEN [tag |-> "Invalid", kind |-> "none", val |-> num.val]
        ELSE [tag |-> "Ok", kind |-> "none", val |-> num.val]

NotParsed == [tag |-> "none", kind |-> "none", val |-> 0]
NoOrigin == [how |-> "none", val |-> 0]

(* Text given on the command line *)
TypedTexts ==
    { <<>>, <<" ">>, <<"7">>, <<" ", "4", "2", "\n">>, <<"+", "5">>, <<"-", "1">>,
      <<"0", "0", "7">>, <<"1", "0", "0">>, <<"1", "0", "1">>, <<"2", "5", "5">>,
      <<"2", "5", "6">>, <<"2", "5", "6", "a">>, <<"5", "0", "%">>, <<"a">>,
      <<"1", " ", "2">>, <<"7", "\r">>, <<"\r", "7">>,
      <<"\r", "\n", "7", "\r", "\n">>, <<"7", "\f">>, <<"\f", "7">>,
      <<" ", "\r">>, <<"", "7", " ">>, <<"", "7", "U+2003">>,
      <<"7", "\r", "7">> }

(* FanSpeed::new(raw): a new value in hand, no text made from it yet *)
FanSpeedNew(raw) ==
    /\ rawArg' = raw
    /\ fs' = new(raw)
    /\ text' = <<>>
    /\ origin' = NoOrigin
    /\ parsed' = NotParsed
    /\ UNCHANGED <<mapVars, schedVars, configVars>>

(* FanSpeed::default(), FanSpeed::MAX, FanSpeed::MIN *)
FanSpeedConstant(v) ==
    /\ rawArg' = -1
    /\ fs' = Some(v)
    /\ text' = <<>>
    /\ origin' = NoOrigin
    /\ parsed' = NotParsed
    /\ UNCHANGED <<mapVars, schedVars, configVars>>

(* format!("{}", fs): the Display text of the FanSpeed in hand *)
FanSpeedDisplay ==
    /\ fs.tag = "Some"
    /\ text' = Display(fs.val)
    /\ origin' = [how |-> "display", val |-> fs.val]
    /\ parsed' = NotParsed
    /\ UNCHANGED <<rawArg, fs, mapVars, schedVars, configVars>>

(* format!("{}", fs.0): the decimal text of the wrapped u8 *)
FanSpeedFormatRaw ==
    /\ fs.tag = "Some"
    /\ text' = FormatU8(fs.val)
    /\ origin' = [how |-> "raw", val |-> fs.val]
    /\ parsed' = NotParsed
    /\ UNCHANGED <<rawArg, fs, mapVars, schedVars, configVars>>

FanSpeedTyped(t) ==
    /\ text' = t
    /\ origin' = [how |-> "typed", val |-> 0]
    /\ parsed' = NotParsed
    /\ UNCHANGED <<rawArg, fs, mapVars, schedVars, configVars>>

(* FanSpeed::from_str(&text) *)
FanSpeedFromStr ==
    /\ origin.how # "none"
    /\ parsed' = from_str(text)
    /\ UNCHANGED <<rawArg, fs, text, origin, mapVars, schedVars, configVars>>

FanSpeedIdle ==
    /\ rawArg = -1
    /\ fs = None
    /\ text = <<>>
    /\ origin = NoOrigin
    /\ parsed = NotParsed

----------------------------------------------------------------------------
(* Specifications, one per component *)

(* The mapping engine: built once, then queried *)
Init ==
    /\ MapInit
    /\ SchedIdle
    /\ ConfigIdle
    /\ FanSpeedIdle

Next ==
    \/ \E tmin \in TempBounds, tmax \in TempBounds,
          smin \in SpeedBounds, smax \in SpeedBounds :
          FanSpeedMapNew(tmin, tmax, smin, smax)
    \/ \E t \in U8 : FanSpeedMapGet(t)

Spec == Init /\ [][Next]_vars

(* The scheduler: constructed, then polled with any timestamp *)
SchedInit ==
    /\ \E n \in StartTimes, i \in Intervals : SchedulerNew(n, i)
    /\ NoHistory
    /\ MapInit
    /\ ConfigIdle
    /\ FanSpeedIdle

SchedNext == \E n \in Instants : SchedulerUpdate(n) /\ UNCHANGED loopVars

SchedSpec == SchedInit /\ [][SchedNext]_vars

(* The control loop: it polls the scheduler at any timestamp until its     *)
(* clock settles, and from then on at advancing timestamps, for as long as *)
(* there is a later timestamp to poll at.                                  *)
LoopInit ==
    /\ \E n \in StartTimes, i \in PollIntervals : SchedulerNew(n, i)
    /\ NoHistory
    /\ MapInit
    /\ ConfigIdle
    /\ FanSpeedIdle

LoopNext ==
    \/ \E n \in PollInstants : Poll(n)
    \/ ClockSettles
    \/ \E n \in PollInstants : PollLater(n)

LoopSpec ==
    /\ LoopInit
    /\ [][LoopNext]_vars
    /\ WF_vars(\E n \in PollInstants : PollLater(n))

(* The configuration: defaulted, deserialized, checked, loaded *)
ConfigInit ==
    /\ MapInit
    /\ SchedIdle
    /\ ConfigIdle
    /\ FanSpeedIdle

ConfigNext ==
    \/ ConfigDefault
    \/ \E doc \in Documents : ConfigFromToml(doc)
    \/ ConfigCheck
    \/ ConfigLoad(FALSE, NoConfig)
    \/ \E doc \in Documents : ConfigLoad(TRUE, doc)

ConfigSpec == ConfigInit /\ [][ConfigNext]_vars

(* FanSpeed: constructed, formatted, parsed *)
FanSpeedInit ==
    /\ MapInit
    /\ SchedIdle
    /\ ConfigIdle
    /\ FanSpeedIdle

FanSpeedNext ==
    \/ \E raw \in U8 : FanSpeedNew(raw)
    \/ \E v \in {FanSpeedDefaultValue, FanSpeedMAX, FanSpeedMIN} : FanSpeedConstant(v)
    \/ FanSpeedDisplay
    \/ FanSpeedFormatRaw
    \/ \E t \in TypedTexts : FanSpeedTyped(t)
    \/ FanSpeedFromStr

FanSpeedSpec == FanSpeedInit /\ [][FanSpeedNext]_vars

----------------------------------------------------------------------------
(* Properties of the mapping engine, checked under Spec *)

ValidMap ==
    /\ built = "yes"
    /\ fsm.temperature_min < fsm.temperature_max
    /\ fsm.fan_speed_min < fsm.fan_speed_max
    /\ fsm.fan_speed_min <= FanSpeedMAX
    /\ fsm.fan_speed_max <= FanSpeedMAX

Queried == temp \in U8

(* C1: for a map built from a valid configuration, the fan speed get       *)
(* returns for any temperature 0..255 lies in [fan_speed_min,              *)
(* fan_speed_max].                                                         *)
C1_GetWithinRange ==
    (ValidMap /\ Queried) =>
        /\ fsm.fan_speed_min <= speed
        /\ speed <= fsm.fan_speed_max

C1_Witness ==
    /\ ValidMap
    /\ fsm.temperature_min < temp
    /\ temp < fsm.temperature_max
    /\ fsm.fan_speed_min < speed
    /\ speed < fsm.fan_speed_max

(* C2: endpoint exactness: get(temperature_min) is fan_speed_min and       *)
(* get(temperature_max) is fan_speed_max.                                  *)
C2_EndpointExact ==
    (ValidMap /\ Queried) =>
        /\ (temp = fsm.temperature_min => speed = fsm.fan_speed_min)
        /\ (temp = fsm.temperature_max => speed = fsm.fan_speed_max)

C2_Witness ==
    /\ ValidMap
    /\ temp = fsm.temperature_max
    /\ speed = fsm.fan_speed_max
    /\ fsm.temperature_max - fsm.temperature_min = 32
    /\ fsm.fan_speed_max - fsm.fan_speed_min = 89

(* C3: monotonicity: for temperature_min <= a <= b <= temperature_max,     *)
(* get(a) <= get(b).  Here one of a, b is the temperature just queried and *)
(* the other ranges over the calibrated range.                             *)
C3_Monotone ==
    (ValidMap /\ temp \in fsm.temperature_min..fsm.temperature_max) =>
        /\ \A b \in temp..fsm.temperature_max : speed <= get(fsm, b)
        /\ \A a \in fsm.temperature_min..temp : get(fsm, a) <= speed

C3_Witness ==
    /\ ValidMap
    /\ fsm.temperature_min < temp
    /\ temp < fsm.temperature_max
    /\ get(fsm, temp - 1) < speed
    /\ speed = get(fsm, temp + 1)

(* C4: outside the calibrated range the map saturates: below               *)
(* temperature_min it gives fan_speed_min, above temperature_max it gives  *)
(* fan_speed_max.                                                          *)
C4_Saturates ==
    (ValidMap /\ Queried) =>
        /\ (temp < fsm.temperature_min => speed = fsm.fan_speed_min)
        /\ (temp > fsm.temperature_max => speed = fsm.fan_speed_max)

C4_Witness ==
    /\ ValidMap
    /\ temp > fsm.temperature_max
    /\ speed = fsm.fan_speed_max
    /\ fsm.fan_speed_max < FanSpeedMAX

----------------------------------------------------------------------------
(* Properties of the scheduler, checked under SchedSpec.  In a step that   *)
(* changes the state, now' is the timestamp update was called with, prev   *)
(* the previous tick before the call and due' its result.                  *)

(* C5: for now >= previous tick, update(now) returns due iff               *)
(* now - previous tick >= interval, and a due result sets the previous     *)
(* tick to now.                                                            *)
C5_DueRule ==
    [][ /\ (now' >= prev => (due' <=> now' - prev >= interval))
        /\ (due' => prev' = now') ]_vars

C5_Witness ==
    /\ interval = 100
    /\ due
    /\ now = 150
    /\ prev = 150

(* C6: update(now) with now before the previous tick returns not due and   *)
(* sets the previous tick to now.                                          *)
C6_BackwardsTime ==
    [][ now' < prev => (~due' /\ prev' = now') ]_vars

C6_Witness ==
    /\ interval = 100
    /\ prev = 3
    /\ now = 3
    /\ ~due

----------------------------------------------------------------------------
(* Properties of the configuration, checked under ConfigSpec *)

TemperatureRangeOk(c) == c.temperature_min < c.temperature_max
FanSpeedRangeOk(c) == c.fan_speed_min < c.fan_speed_max
FanSpeedMinOk(c) == c.fan_speed_min <= FanSpeedMAX
FanSpeedMaxOk(c) == c.fan_speed_max <= FanSpeedMAX

(* C7: Config::check reports the first violated invariant in the order     *)
(* temperature range, fan-speed range, fan_speed_min <= 100,               *)
(* fan_speed_max <= 100, and Ok only when none is violated.                *)
C7_CheckOrder ==
    checkResult # "none" =>
        /\ checkResult = "InvalidTemperatureRange" <=> ~TemperatureRangeOk(config)
        /\ checkResult = "InvalidFanSpeedRange" <=>
              (TemperatureRangeOk(config) /\ ~FanSpeedRangeOk(config))
        /\ checkResult = "InvalidFanSpeedMin" <=>
              (TemperatureRangeOk(config) /\ FanSpeedRangeOk(config)
               /\ ~FanSpeedMinOk(config))
        /\ checkResult = "InvalidFanSpeedMax" <=>
              (TemperatureRangeOk(config) /\ FanSpeedRangeOk(config)
               /\ FanSpeedMinOk(config) /\ ~FanSpeedMaxOk(config))
        /\ checkResult = "Ok" <=>
              (TemperatureRangeOk(config) /\ FanSpeedRangeOk(config)
               /\ FanSpeedMinOk(config) /\ FanSpeedMaxOk(config))

C7_Witness ==
    /\ checkResult = "InvalidTemperatureRange"
    /\ config.temperature_min > config.temperature_max
    /\ config.fan_speed_min > config.fan_speed_max

(* C10: every FanSpeed that can be obtained, a Config's fan_speed_min and  *)
(* fan_speed_max deserialized from a document included, holds a value in   *)
(* 0..100.                                                                 *)
C10_FanSpeedInvariant ==
    /\ config # NoConfig =>
          /\ config.fan_speed_min \in FanSpeedMIN..FanSpeedMAX
          /\ config.fan_speed_max \in FanSpeedMIN..FanSpeedMAX
    /\ fs.tag = "Some" => fs.val \in FanSpeedMIN..FanSpeedMAX
    /\ parsed.tag = "Ok" => parsed.val \in FanSpeedMIN..FanSpeedMAX

----------------------------------------------------------------------------
(* Properties of FanSpeed, checked under FanSpeedSpec *)

Ok(v) == [tag |-> "Ok", kind |-> "none", val |-> v]

(* C8, as claimed: the Display text of a FanSpeed parses back to it *)
C8_DisplayRoundTrip ==
    (origin.how = "display" /\ parsed # NotParsed) => parsed = Ok(origin.val)

(* C8, amended: the decimal text of the wrapped integer of a FanSpeed      *)
(* parses back to it, and its Display text, which ends in '%', is refused  *)
(* by from_str with a ParseIntError.                                       *)
C8_RawRoundTrip ==
    /\ (origin.how = "raw" /\ parsed # NotParsed) => parsed = Ok(origin.val)
    /\ (origin.how = "display" /\ parsed # NotParsed) =>
          (parsed.tag = "ParseIntError" /\ parsed.kind = "InvalidDigit")

C8_Witness ==
    /\ origin = [how |-> "raw", val |-> FanSpeedMAX]
    /\ text = <<"1", "0", "0">>
    /\ parsed = Ok(FanSpeedMAX)

(* C9: FanSpeed::new(raw) gives a FanSpeed holding raw iff raw <= 100 and  *)
(* gives nothing for raw in 101..255.                                      *)
C9_NewIffValid ==
    rawArg \in U8 =>
        /\ (fs = Some(rawArg) <=> rawArg <= 100)
        /\ (rawArg > 100 => fs = None)

C9_Witness ==
    /\ rawArg = 101
    /\ fs = None

----------------------------------------------------------------------------
(* Properties of the scheduler in the control loop.  In a state with due   *)
(* true, now is the timestamp of that due result and lastDue the timestamp *)
(* of the due result before it.                                            *)

(* C11, as claimed: the timestamps of any two consecutive update calls     *)
(* that return due are at least interval apart.                            *)
C11_ConsecutiveDueApart ==
    (due /\ lastDue # -1) => now - lastDue >= interval

(* C11, amended: the timestamps of two consecutive update calls that      *)
(* return due, with no backwards-time call between them, are at least      *)
(* interval apart, however many wakeups were missed in between.            *)
C11_DueApartUnlessRegressed ==
    (due /\ lastDue # -1 /\ ~regressed) => now - lastDue >= interval

C11_Witness ==
    /\ due
    /\ lastDue # -1
    /\ ~regressed
    /\ interval = 2
    /\ now - lastDue > 3 * interval

(* C12: self-healing, checked under LoopSpec.  The poll that follows a due *)
(* result at a later time less than interval away returns not due; the     *)
(* first poll at or after prev + interval returns due; and once the polled *)
(* time keeps advancing, a scheduler that is not due, a regression behind  *)
(* it or not, returns due eventually (the horizon leaving room for it).    *)
C12_SelfHealing ==
    /\ [][ (due /\ now' > now /\ now' - now < interval) => ~due' ]_vars
    /\ [][ now' >= prev + interval => due' ]_vars
    /\ (advancing /\ ~due /\ prev + interval <= MaxPollTime) ~> due

C12_Witness ==
    /\ advancing
    /\ due
    /\ regressed
    /\ lastDue > now

(* C13: frame condition, checked under SchedSpec.  update(now) with        *)
(* 0 <= now - prev < interval returns not due and leaves prev unchanged,   *)
(* and no update changes interval.                                         *)
C13_WaitingFrame ==
    [][ /\ (now' >= prev /\ now' - prev < interval) => (~due' /\ prev' = prev)
        /\ interval' = interval ]_vars

C13_Witness ==
    /\ interval = 100
    /\ prev = 0
    /\ now = 50
    /\ ~due

====
